---- MODULE Spec2Model ----
(***************************************************************************)
(* Model of MailMind's RAG engine (app/rag.py): the vector-store side      *)
(* (RAGEngine.ingest, RAGEngine.retrieve, RAGEngine.count) and the style   *)
(* profiler (RAGEngine.build_style_profile, RAGEngine.get_style_profile).  *)
(*                                                                         *)
(* Strings whose length matters (body, received) are modelled as a text    *)
(* tag plus a length: [t |-> tag, n |-> length] is the prefix of length n  *)
(* of the text named by the tag, so slicing s[:k] keeps the tag and cuts   *)
(* the length.  Distances are integers in units of 1/10000, similarities   *)
(* integers in units of 1/1000.                                            *)
(***************************************************************************)
EXTENDS Integers, Sequences, FiniteSets, TLC

VARIABLES
    collection,   \* the "email_history" collection: id -> [document, metadata]
    last,         \* the call of ingest or retrieve being answered, with its outcome
    file,         \* STYLE_PROFILE_FILE
    build,        \* the call of build_style_profile in progress
    got,          \* what get_style_profile returned, when it was the last step
    latest        \* what the last build call that had a body returned

vars == <<collection, last, file, build, got, latest>>

storeVars == <<collection, last>>
styleVars == <<file, build, got, latest>>

----------------------------------------------------------------------------
(* Bounds of the model *)

\* settings.MAX_EMAIL_HISTORY (default 500, configurable), scaled down
MAX_EMAIL_HISTORY == 3
\* batch_size of ingest (100 in the source), scaled down
batch_size == 2
\* longest input batch a caller sends
MaxEmails == 4

----------------------------------------------------------------------------
(* Strings *)

Min(a, b) == IF a < b THEN a ELSE b

Empty == [t |-> "", n |-> 0]
\* a key that is absent from the email dict
Missing == [t |-> "", n |-> 0 - 1]

\* s[:k]
Slice(s, k) == IF s.n <= k THEN s ELSE [t |-> s.t, n |-> k]

\* email.get(key, "") for the string-valued keys body and received
Get(email, key) == IF email[key] = Missing THEN Empty ELSE email[key]

\* str(n) for the small non-negative integers used as positional ids
Digits == <<"0", "1", "2", "3", "4", "5", "6", "7", "8", "9">>
DecStr(n) == Digits[n + 1]

----------------------------------------------------------------------------
(* Input alphabet: the email dicts a caller may send *)

Hi    == [t |-> "hi", n |-> 3]
Lorem == [t |-> "lorem", n |-> 801]
Yo    == [t |-> "yo", n |-> 600]
Rcv   == [t |-> "rcv", n |-> 401]

Email(id, subject, body, received) ==
    [id |-> id, subject |-> subject, body |-> body, received |-> received,
     from |-> "me", to |-> "you"]

Emails ==
    { Email("",  "A", Hi,      Missing),
      Email("0", "A", Lorem,   Rcv),
      Email("0", "B", Yo,      Empty),
      Email("7", "B", Missing, Rcv) }

RECURSIVE SeqsUpTo(_, _)
SeqsUpTo(S, n) ==
    IF n = 0 THEN { <<>> }
    ELSE LET shorter == SeqsUpTo(S, n - 1)
         IN  shorter \cup { Append(s, x) : s \in { q \in shorter : Len(q) = n - 1 }, x \in S }

Batches == SeqsUpTo(Emails, MaxEmails)

----------------------------------------------------------------------------
(* RAGEngine.ingest *)

BODY_LIMIT == 800
REPLY_LIMIT == 500
RECEIVED_LIMIT == 400

\* body = email.get("body", "")[:800]
Body(email) == Slice(Get(email, "body"), BODY_LIMIT)

\* received = email.get("received", "")[:400]
Received(email) == Slice(Get(email, "received"), RECEIVED_LIMIT)

\* doc = f"Subject: {subject}\n\nBody: {body}"
Document(email) == [subject |-> email.subject, body |-> Body(email)]

Metadata(email) ==
    [id |-> email.id,
     subject |-> email.subject,
     reply |-> Slice(Body(email), REPLY_LIMIT),
     received |-> Slice(Received(email), RECEIVED_LIMIT),
     from |-> email.from,
     to |-> email.to]

\* f"email_{email_id}" if email_id else f"email_{len(ids)}"
MakeId(email_id, nids) ==
    IF email_id # "" THEN <<"email_", email_id>> ELSE <<"email_", DecStr(nids)>>

\* Capped without the cap
Capped_NoCap(emails) == emails

\* emails[:settings.MAX_EMAIL_HISTORY]
Capped(emails) == SubSeq(emails, 1, Min(Len(emails), MAX_EMAIL_HISTORY))

\* if not body: continue
Skipped(email) == Body(email).n = 0

\* the for loop of ingest: the three parallel lists it builds
RECURSIVE Collect(_, _, _)
Collect(emails, i, acc) ==
    IF i > Len(emails) THEN acc
    ELSE LET email == emails[i]
         IN  IF Skipped(email) THEN Collect(emails, i + 1, acc)
             ELSE Collect(emails, i + 1,
                    [documents |-> Append(acc.documents, Document(email)),
                     metadatas |-> Append(acc.metadatas, Metadata(email)),
                     ids       |-> Append(acc.ids, MakeId(email.id, Len(acc.ids)))])

NoLists == [documents |-> <<>>, metadatas |-> <<>>, ids |-> <<>>]

Lists(emails) == Collect(Capped(emails), 1, NoLists)

\* Chunk with the slice one short
Chunk_OffByOne(lst, i) == SubSeq(lst, i + 1, Min(i + batch_size - 1, Len(lst)))

\* lst[i:i+batch_size], i counted from 0
Chunk(lst, i) == SubSeq(lst, i + 1, Min(i + batch_size, Len(lst)))

\* Upsert that inserts new ids only and keeps the record of an id it holds
RECURSIVE Upsert_InsertOnly(_, _, _, _, _)
Upsert_InsertOnly(coll, documents, metadatas, ids, p) ==
    IF p > Len(ids) THEN coll
    ELSE Upsert_InsertOnly([x \in DOMAIN coll \cup {ids[p]} |->
                    IF x \in DOMAIN coll THEN coll[x]
                    ELSE [document |-> documents[p], metadata |-> metadatas[p]]],
                documents, metadatas, ids, p + 1)

\* collection.upsert: insert or replace by id, in list order
RECURSIVE Upsert(_, _, _, _, _)
Upsert(coll, documents, metadatas, ids, p) ==
    IF p > Len(ids) THEN coll
    ELSE Upsert([x \in DOMAIN coll \cup {ids[p]} |->
                    IF x = ids[p]
                    THEN [document |-> documents[p], metadata |-> metadatas[p]]
                    ELSE coll[x]],
                documents, metadatas, ids, p + 1)

\* UpsertLoop that swallows the fault of an upsert and goes on
RECURSIVE UpsertLoop_Swallow(_, _, _, _, _)
UpsertLoop_Swallow(coll, lists, i, faultAt, calls) ==
    IF i >= Len(lists.documents) THEN [coll |-> coll, calls |-> calls, raised |-> FALSE]
    ELSE LET call == [documents |-> SubSeq(lists.documents, i + 1, Min(i + batch_size, Len(lists.documents))),
                      metadatas |-> SubSeq(lists.metadatas, i + 1, Min(i + batch_size, Len(lists.metadatas))),
                      ids       |-> SubSeq(lists.ids, i + 1, Min(i + batch_size, Len(lists.ids)))]
         IN  UpsertLoop_Swallow(IF Len(calls) + 1 = faultAt THEN coll
                                ELSE Upsert(coll, call.documents, call.metadatas, call.ids, 1),
                                lists, i + batch_size, faultAt, Append(calls, call))

\* for i in range(0, len(documents), batch_size): self.collection.upsert(...)
\* The upsert numbered faultAt raises (0: none does); it leaves the store as
\* it was and ends the loop.
RECURSIVE UpsertLoop(_, _, _, _, _)
UpsertLoop(coll, lists, i, faultAt, calls) ==
    IF i >= Len(lists.documents) THEN [coll |-> coll, calls |-> calls, raised |-> FALSE]
    ELSE LET call == [documents |-> Chunk(lists.documents, i),
                      metadatas |-> Chunk(lists.metadatas, i),
                      ids       |-> Chunk(lists.ids, i)]
         IN  IF Len(calls) + 1 = faultAt
             THEN [coll |-> coll, calls |-> Append(calls, call), raised |-> TRUE]
             ELSE UpsertLoop(Upsert(coll, call.documents, call.metadatas, call.ids, 1),
                             lists, i + batch_size, faultAt, Append(calls, call))

NoReturn == 0 - 1

\* how many times the loop of ingest calls upsert when nothing fails
NumCalls(lists) == (Len(lists.documents) + batch_size - 1) \div batch_size

count(coll) == Cardinality(DOMAIN coll)

EmptyCollection == [x \in {} |-> [document |-> Document(Email("", "", Empty, Empty)),
                                  metadata |-> Metadata(Email("", "", Empty, Empty))]]

Idle == [op |-> "none"]

ingest(emails, faultAt) ==
    LET lists == Lists(emails)
        run   == UpsertLoop(collection, lists, 0, faultAt, <<>>)
    IN  /\ faultAt <= NumCalls(lists)
        /\ collection' = run.coll
        /\ last' = [op |-> "ingest", emails |-> emails, faultAt |-> faultAt,
                    before |-> collection, calls |-> run.calls, raised |-> run.raised,
                    ret |-> IF run.raised THEN NoReturn ELSE Len(lists.documents)]
        /\ UNCHANGED styleVars

----------------------------------------------------------------------------
(* RAGEngine.retrieve *)

Queries == {"q1", "q2"}

\* Cosine distance between the embeddings of a query and of a document, in
\* units of 1/10000.  The embedding function is deterministic: equal
\* documents are equally far from a query.  Nothing indexed is close to "q2".
Distance(query, document) ==
    LET byBody    == CASE document.body.t = "hi"    -> 1234
                       [] document.body.t = "lorem" -> 7996
                       [] OTHER                     -> 7990
        bySubject == IF document.subject = "B" THEN 10 ELSE 0
        byQuery   == IF query = "q2" THEN 8000 ELSE 0
    IN  byBody + bySubject + byQuery

\* the orders in which the store may rank all of its records for a query:
\* ascending distance, ties in any order
Rankings(coll, query) ==
    LET N == count(coll)
    IN  { r \in [1..N -> DOMAIN coll] :
            /\ \A i, j \in 1..N : i # j => r[i] # r[j]
            /\ \A i \in 1..N : i < N =>
                   Distance(query, coll[r[i]].document)
                     <= Distance(query, coll[r[i + 1]].document) }

\* collection.query(query_texts=[query], n_results=k,
\*                  include=["metadatas", "distances"]) for one ranking r.
\* For k = 0 there is no row; a backend that rejects such a request instead
\* raises inside the try block, and retrieve returns [] either way.
QueryResult(coll, query, k, r) ==
    [ids       |-> [i \in 1..k |-> r[i]],
     metadatas |-> [i \in 1..k |-> coll[r[i]].metadata],
     distances |-> [i \in 1..k |-> Distance(query, coll[r[i]].document)]]

\* 0.8
DISTANCE_THRESHOLD == 8000

\* Close with the bound included
Close_Inclusive(dist) == dist <= DISTANCE_THRESHOLD

\* if dist < 0.8
Close(dist) == dist < DISTANCE_THRESHOLD

\* round(x, 3) of x given in units of 1/10000, the result in units of 1/1000
Round3(x) ==
    LET q == x \div 10
        r == x % 10
    IN  IF r < 5 THEN q
        ELSE IF r > 5 THEN q + 1
        ELSE IF q % 2 = 0 THEN q ELSE q + 1

\* "similarity": round(1 - dist, 3)
Similarity(dist) == Round3(10000 - dist)

Context(meta, dist) ==
    [received |-> meta.received, reply |-> meta.reply, subject |-> meta.subject,
     similarity |-> Similarity(dist)]

\* for meta, dist in zip(...): if dist < 0.8: contexts.append(...)
RECURSIVE Contexts(_, _, _)
Contexts(metadatas, distances, i) ==
    IF i > Min(Len(metadatas), Len(distances)) THEN <<>>
    ELSE IF Close(distances[i])
         THEN <<Context(metadatas[i], distances[i])>> \o Contexts(metadatas, distances, i + 1)
         ELSE Contexts(metadatas, distances, i + 1)

NoResults == [ids |-> <<>>, metadatas |-> <<>>, distances |-> <<>>]

\* the backend calls of retrieve, in order; fault names the one that raises
Faults == {"none", "count1", "count2", "query"}

\* the emptiness check (line 101) stands before the try block
InTry(fault) == fault \in {"count2", "query"}

\* what a backend fault at the named call turns into
Failed(fault) ==
    [raised |-> ~InTry(fault), caught |-> InTry(fault), results |-> NoResults, ret |-> <<>>]

retrieve(query, n_results, fault, r) ==
    LET outcome ==
          IF fault = "count1" THEN Failed(fault)
          ELSE IF count(collection) = 0
          THEN [raised |-> FALSE, caught |-> FALSE, results |-> NoResults, ret |-> <<>>]
          ELSE IF fault # "none" THEN Failed(fault)
          ELSE LET results == QueryResult(collection, query,
                                          Min(n_results, count(collection)), r)
               IN  [raised |-> FALSE, caught |-> FALSE, results |-> results,
                    ret |-> Contexts(results.metadatas, results.distances, 1)]
    IN  /\ count(collection) = 0 => fault \in {"none", "count1"}
        /\ last' = [op |-> "retrieve", query |-> query, n_results |-> n_results,
                    fault |-> fault, before |-> collection,
                    results |-> outcome.results, raised |-> outcome.raised,
                    caught |-> outcome.caught, ret |-> outcome.ret]
        /\ UNCHANGED collection
        /\ UNCHANGED styleVars

----------------------------------------------------------------------------
(* The style profiler: what build_style_profile reads in a body *)

\* For the text named by a tag: words is len(text.split()); sign_off the
\* group of the first match of the sign-off pattern ("" when none matches);
\* formal and casual the number of words of the formal and of the casual
\* list that occur in the text; tokens what \b[a-z]{3,}\b finds in the
\* lower-cased text.
Text(t) ==
    CASE t = "w40"  -> [words |-> 40,  sign_off |-> "Thanks", formal |-> 0, casual |-> 2,
                        tokens |-> <<"see", "you", "soon">>]
      [] t = "w60"  -> [words |-> 60,  sign_off |-> "Best regards", formal |-> 2, casual |-> 0,
                        tokens |-> <<"talk", "soon", "see", "you">>]
      [] t = "w200" -> [words |-> 200, sign_off |-> "", formal |-> 1, casual |-> 1,
                        tokens |-> <<"see", "you">>]
      [] t = "w400" -> [words |-> 400, sign_off |-> "Cheers", formal |-> 3, casual |-> 0,
                        tokens |-> <<"kind", "regards">>]
      [] OTHER      -> [words |-> 1,   sign_off |-> "", formal |-> 0, casual |-> 0,
                        tokens |-> <<>>]

W40  == [t |-> "w40",  n |-> 250]
W60  == [t |-> "w60",  n |-> 390]
W200 == [t |-> "w200", n |-> 1300]
W400 == [t |-> "w400", n |-> 2600]

StyleEmails ==
    { Email("1", "A", W40, Empty),
      Email("2", "A", W60, Empty),
      Email("3", "A", W200, Empty),
      Email("4", "A", W400, Empty),
      Email("5", "A", Empty, Empty),
      Email("6", "A", Missing, Empty) }

\* longest batch handed to build_style_profile
MaxStyleEmails == 2

StyleBatches == SeqsUpTo(StyleEmails, MaxStyleEmails)

----------------------------------------------------------------------------
(* RAGEngine.build_style_profile *)

Take(seq, k) == SubSeq(seq, 1, Min(k, Len(seq)))

\* e.get("body") is truthy
HasBody(email) == email.body # Missing /\ email.body.n > 0

\* bodies = [e.get("body", "") for e in emails if e.get("body")]
RECURSIVE BodiesOf(_, _)
BodiesOf(emails, i) ==
    IF i > Len(emails) THEN <<>>
    ELSE IF HasBody(emails[i]) THEN <<Get(emails[i], "body")>> \o BodiesOf(emails, i + 1)
         ELSE BodiesOf(emails, i + 1)

\* collections.Counter: the distinct items in order of first occurrence
RECURSIVE Distinct(_, _, _)
Distinct(items, i, acc) ==
    IF i > Len(items) THEN acc
    ELSE IF \E p \in 1..Len(acc) : acc[p] = items[i]
         THEN Distinct(items, i + 1, acc)
         ELSE Distinct(items, i + 1, Append(acc, items[i]))

Count(items, x) == Cardinality({ i \in 1..Len(items) : items[i] = x })

\* sorted by count, largest first, equal counts in order of first occurrence
RECURSIVE ByCount(_, _)
ByCount(keys, items) ==
    IF Len(keys) = 0 THEN <<>>
    ELSE LET p == CHOOSE p \in 1..Len(keys) :
                    /\ \A q \in 1..Len(keys) : Count(items, keys[q]) <= Count(items, keys[p])
                    /\ \A q \in 1..(p - 1) : Count(items, keys[q]) < Count(items, keys[p])
         IN  <<keys[p]>> \o ByCount(SubSeq(keys, 1, p - 1) \o SubSeq(keys, p + 1, Len(keys)), items)

\* Counter(items).most_common(k), the items only
MostCommon(items, k) == Take(ByCount(Distinct(items, 1, <<>>), items), k)

\* the sign-offs matched, one per body that has one
RECURSIVE SignOffs(_, _)
SignOffs(bodies, i) ==
    IF i > Len(bodies) THEN <<>>
    ELSE IF Text(bodies[i].t).sign_off # ""
         THEN <<Text(bodies[i].t).sign_off>> \o SignOffs(bodies, i + 1)
         ELSE SignOffs(bodies, i + 1)

SignOff(bodies) ==
    LET most_common_signoff == MostCommon(SignOffs(bodies, 1), 1)
    IN  IF Len(most_common_signoff) > 0 THEN most_common_signoff[1] ELSE "Best regards"

RECURSIVE Sum(_, _, _)
Sum(bodies, field, i) ==
    IF i > Len(bodies) THEN 0 ELSE Text(bodies[i].t)[field] + Sum(bodies, field, i + 1)

Tone(bodies) ==
    IF Sum(bodies, "formal", 1) > Sum(bodies, "casual", 1) THEN "formal" ELSE "conversational"

VERY_SHORT == 50
CONCISE == 120
MODERATE == 300

\* AvgLength with the bounds included
AvgLength_Inclusive(total, nbodies) ==
    IF total <= VERY_SHORT * nbodies THEN "very short (1-2 sentences)"
    ELSE IF total <= CONCISE * nbodies THEN "concise (3-5 sentences)"
    ELSE IF total <= MODERATE * nbodies THEN "moderate (1-2 paragraphs)"
    ELSE "detailed (multiple paragraphs)"

\* avg_words = total / nbodies, compared with 50, 120 and 300
AvgLength(total, nbodies) ==
    IF total < VERY_SHORT * nbodies THEN "very short (1-2 sentences)"
    ELSE IF total < CONCISE * nbodies THEN "concise (3-5 sentences)"
    ELSE IF total < MODERATE * nbodies THEN "moderate (1-2 paragraphs)"
    ELSE "detailed (multiple paragraphs)"

FIRST_BODIES == 50
MOST_COMMON == 20
MIN_COUNT == 2
MAX_PHRASES == 8

\* words = re.findall(r'\b[a-z]{3,}\b', " ".join(bodies[:50]).lower())
RECURSIVE Words(_, _)
Words(bodies, i) ==
    IF i > Len(bodies) THEN <<>> ELSE Text(bodies[i].t).tokens \o Words(bodies, i + 1)

Bigrams(words) == [i \in 1..(Len(words) - 1) |-> <<words[i], words[i + 1]>>]

CommonPhrases(bodies) ==
    LET bigrams == Bigrams(Words(Take(bodies, FIRST_BODIES), 1))
        frequent(p) == Count(bigrams, p) >= MIN_COUNT
    IN  Take(SelectSeq(MostCommon(bigrams, MOST_COMMON), frequent), MAX_PHRASES)

\* the empty dict
EmptyProfile == [empty |-> TRUE]

Profile(emails) ==
    LET bodies == BodiesOf(emails, 1)
    IN  [tone           |-> Tone(bodies),
         avg_length     |-> AvgLength(Sum(bodies, "words", 1), Len(bodies)),
         sign_off       |-> SignOff(bodies),
         common_phrases |-> CommonPhrases(bodies),
         email_count    |-> Len(emails)]

\* json.dump(profile, f): the text of the file, token by token
Dump(profile) ==
    << "{", [k |-> "tone", v |-> profile.tone],
            [k |-> "avg_length", v |-> profile.avg_length],
            [k |-> "sign_off", v |-> profile.sign_off],
            [k |-> "common_phrases", v |-> profile.common_phrases],
            [k |-> "email_count", v |-> profile.email_count], "}" >>

DumpLen == 7

\* json.load(f): the dict of a complete text; anything else raises
Loads(content) ==
    IF Len(content) = DumpLen
    THEN [raised |-> FALSE,
          ret |-> [tone |-> content[2].v, avg_length |-> content[3].v,
                   sign_off |-> content[4].v, common_phrases |-> content[5].v,
                   email_count |-> content[6].v]]
    ELSE [raised |-> TRUE, ret |-> EmptyProfile]

NoFile == [exists |-> FALSE, content |-> <<>>]

\* OpenW in append mode: what the file held stays
OpenW_Append(f) == [exists |-> TRUE, content |-> f.content]

\* open(STYLE_PROFILE_FILE, "w"): the file exists and is empty
OpenW(f) == [exists |-> TRUE, content |-> <<>>]

\* bodies = [...]; if not bodies: return {}; otherwise the profile is computed
build_start(emails) ==
    /\ build = Idle
    /\ build' = IF Len(BodiesOf(emails, 1)) = 0
                THEN [pc |-> "returned", emails |-> emails,
                      profile |-> EmptyProfile, written |-> 0, ret |-> EmptyProfile]
                ELSE [pc |-> "computed", emails |-> emails,
                      profile |-> Profile(emails), written |-> 0, ret |-> EmptyProfile]
    /\ got' = Idle
    /\ UNCHANGED <<file, latest>>

\* with open(STYLE_PROFILE_FILE, "w") as f:
build_open ==
    /\ build # Idle
    /\ build.pc = "computed"
    /\ file' = OpenW(file)
    /\ build' = [build EXCEPT !.pc = "opened"]
    /\ got' = Idle
    /\ UNCHANGED latest

\* json.dump writes through a buffer: a part of the text may reach the
\* file before the rest
build_flush ==
    /\ build # Idle
    /\ build.pc = "opened"
    /\ build.written = 0
    /\ \E j \in 1..(DumpLen - 1) :
          /\ file' = [file EXCEPT !.content = @ \o SubSeq(Dump(build.profile), 1, j)]
          /\ build' = [build EXCEPT !.written = j]
    /\ got' = Idle
    /\ UNCHANGED latest

\* the end of the with block: the rest of the text is written, the file is
\* closed and the profile returned
build_close ==
    /\ build # Idle
    /\ build.pc = "opened"
    /\ file' = [file EXCEPT !.content =
                    @ \o SubSeq(Dump(build.profile), build.written + 1, DumpLen)]
    /\ build' = [build EXCEPT !.pc = "returned", !.written = DumpLen, !.ret = build.profile]
    /\ latest' = build.profile
    /\ got' = Idle

build_return ==
    /\ build # Idle
    /\ build.pc = "returned"
    /\ build' = Idle
    /\ got' = Idle
    /\ UNCHANGED <<file, latest>>

(* RAGEngine.get_style_profile *)

Load(f) == IF f.exists THEN Loads(f.content) ELSE [raised |-> FALSE, ret |-> EmptyProfile]

get_style_profile ==
    /\ got' = [op |-> "get",
               writer |-> IF build = Idle THEN "idle" ELSE build.pc,
               old |-> latest,
               new |-> IF build = Idle THEN latest ELSE build.profile,
               raised |-> Load(file).raised,
               ret |-> Load(file).ret]
    /\ UNCHANGED <<file, build, latest>>

----------------------------------------------------------------------------
(* The vector-store side: one request at a time *)

\* largest n_results a caller asks for
MaxN == 3

Init ==
    /\ collection = EmptyCollection
    /\ last = Idle
    /\ file = NoFile
    /\ build = Idle
    /\ got = Idle
    /\ latest = EmptyProfile

\* POST /ingest reaches rag_engine.ingest while no other request is handled
CallIngest ==
    /\ last = Idle
    /\ \E emails \in Batches, faultAt \in 0..MaxEmails : ingest(emails, faultAt)

\* POST /draft reaches rag_engine.retrieve
CallRetrieve ==
    /\ last = Idle
    /\ \E query \in Queries, n_results \in 0..MaxN, fault \in Faults :
         \E r \in Rankings(collection, query) :
            retrieve(query, n_results, fault, r)

\* the call hands its outcome to its caller
Return ==
    /\ last # Idle
    /\ last' = Idle
    /\ UNCHANGED collection
    /\ UNCHANGED styleVars

Next == CallIngest \/ CallRetrieve \/ Return

Spec == Init /\ [][Next]_vars

----------------------------------------------------------------------------
(* The style profiler: one writer, readers at any moment *)

CallBuild == \E emails \in StyleBatches : build_start(emails)

NextStyle ==
    \/ (CallBuild /\ UNCHANGED storeVars)
    \/ (build_open /\ UNCHANGED storeVars)
    \/ (build_flush /\ UNCHANGED storeVars)
    \/ (build_close /\ UNCHANGED storeVars)
    \/ (build_return /\ UNCHANGED storeVars)
    \/ (get_style_profile /\ UNCHANGED storeVars)

SpecStyle == Init /\ [][NextStyle]_vars

----------------------------------------------------------------------------
(* Properties of the vector-store side *)

IsIngest == last.op = "ingest"
IsRetrieve == last.op = "retrieve"

RECURSIVE Flatten(_)
Flatten(seqs) == IF Len(seqs) = 0 THEN <<>> ELSE Head(seqs) \o Flatten(Tail(seqs))

UpsertedIds == Flatten([j \in 1..Len(last.calls) |-> last.calls[j].ids])
UpsertedDocuments == Flatten([j \in 1..Len(last.calls) |-> last.calls[j].documents])
UpsertedMetadatas == Flatten([j \in 1..Len(last.calls) |-> last.calls[j].metadatas])

\* the record has a body that is still non-empty after the cut to 800
WellFormed(email) == email.body # Missing /\ Min(email.body.n, 800) > 0

InCap(emails) == 1..Min(Len(emails), MAX_EMAIL_HISTORY)

StoredId(email) == <<"email_", email.id>>

\* the record the store is to hold for an email
Stored(email) == [document |-> Document(email), metadata |-> Metadata(email)]

C1_Pre ==
    /\ IsIngest
    /\ Len(last.emails) > 0
    /\ \A i \in 1..Len(last.emails) :
          /\ last.emails[i].id # ""
          /\ StoredId(last.emails[i]) \in DOMAIN last.before
          /\ WellFormed(last.emails[i])

\* C1: re-ingesting a batch whose records all carry non-empty source ids that
\* the store already holds, with non-empty bodies, leaves count() unchanged,
\* and after a completed ingest each such id holds the document and metadata
\* of the last record ingested for it.
C1_IdempotentUpsert ==
    C1_Pre =>
      /\ count(collection) = count(last.before)
      /\ ~last.raised =>
           \A i \in InCap(last.emails) :
              (\A j \in InCap(last.emails) : j > i => last.emails[j].id # last.emails[i].id)
                => collection[StoredId(last.emails[i])] = Stored(last.emails[i])

C1_Witness ==
    /\ C1_Pre
    /\ ~last.raised
    /\ Len(last.emails) >= 2
    /\ \E i \in InCap(last.emails) :
          collection[StoredId(last.emails[i])] # last.before[StoredId(last.emails[i])]

ExpectedCount(emails) == Cardinality({ i \in InCap(emails) : WellFormed(emails[i]) })

LastPos(ids, id) == CHOOSE p \in 1..Len(ids) : ids[p] = id /\ \A q \in (p + 1)..Len(ids) : ids[q] # id

\* the store that holds before, overwritten by the listed records
Overwritten(before, ids, documents, metadatas) ==
    [x \in DOMAIN before \cup { ids[p] : p \in 1..Len(ids) } |->
        IF \E p \in 1..Len(ids) : ids[p] = x
        THEN [document |-> documents[LastPos(ids, x)], metadata |-> metadatas[LastPos(ids, x)]]
        ELSE before[x]]

CompletedCalls == SubSeq(last.calls, 1, Len(last.calls) - 1)

\* C5: when the upsert of a sub-batch faults, ingest raises and returns no
\* count, the faulting upsert is the last one attempted and is attempted
\* once, and the store holds the sub-batches upserted before it.
C5_FaultPropagates ==
    (IsIngest /\ last.faultAt > 0) =>
      /\ last.raised
      /\ last.ret = NoReturn
      /\ Len(last.calls) = last.faultAt
      /\ collection =
           Overwritten(last.before,
                       Flatten([j \in 1..Len(CompletedCalls) |-> CompletedCalls[j].ids]),
                       Flatten([j \in 1..Len(CompletedCalls) |-> CompletedCalls[j].documents]),
                       Flatten([j \in 1..Len(CompletedCalls) |-> CompletedCalls[j].metadatas]))

C5_Witness ==
    /\ IsIngest
    /\ last.faultAt = 2
    /\ last.raised
    /\ collection # last.before

\* C8 (as claimed): the ids assigned to the kept records of one call are
\* pairwise distinct, so on a store that held none of them a fault-free
\* ingest raises count() by the value it returns.
C8_ReturnIsIndexedCount ==
    (/\ IsIngest
     /\ last.faultAt = 0
     /\ \A p \in 1..Len(UpsertedIds) : UpsertedIds[p] \notin DOMAIN last.before)
    => /\ \A p, q \in 1..Len(UpsertedIds) : p # q => UpsertedIds[p] # UpsertedIds[q]
       /\ count(collection) = count(last.before) + last.ret

Kept(emails) == SelectSeq(Capped(emails), LAMBDA email : WellFormed(email))

\* C10: the upsert calls of ingest are the consecutive sub-batches of at most
\* batch_size of the kept records, in input order, ids, documents and
\* metadatas aligned; without a fault every kept record is in one of them,
\* the store equals the one a single upsert of all kept records gives, and no
\* call is made when nothing is kept.
C10_TransparentBatching ==
    IsIngest =>
      LET K == Kept(last.emails)
      IN  /\ \A j \in 1..Len(last.calls) :
                LET call == last.calls[j]
                    lo   == (j - 1) * batch_size
                IN  /\ Len(call.ids) = Min(batch_size, Len(K) - lo)
                    /\ Len(call.ids) > 0
                    /\ Len(call.documents) = Len(call.ids)
                    /\ Len(call.metadatas) = Len(call.ids)
                    /\ \A p \in 1..Len(call.ids) :
                          /\ call.documents[p] = Document(K[lo + p])
                          /\ call.metadatas[p] = Metadata(K[lo + p])
                          /\ call.ids[p] = MakeId(K[lo + p].id, lo + p - 1)
          /\ last.faultAt = 0 =>
                /\ Len(UpsertedIds) = Len(K)
                /\ collection = Overwritten(last.before, UpsertedIds,
                                             UpsertedDocuments, UpsertedMetadatas)
                /\ collection = Upsert(last.before,
                                        [p \in 1..Len(K) |-> Document(K[p])],
                                        [p \in 1..Len(K) |-> Metadata(K[p])],
                                        [p \in 1..Len(K) |-> MakeId(K[p].id, p - 1)], 1)
                /\ Len(K) = 0 => Len(last.calls) = 0

C10_Witness ==
    /\ IsIngest
    /\ last.faultAt = 0
    /\ Len(last.calls) >= 2
    /\ Len(last.calls[Len(last.calls)].ids) < batch_size

\* the positions of the ranked results that are closer than 0.8
CloseIdx == { i \in 1..Len(last.results.distances) : last.results.distances[i] < 8000 }

\* the j-th of them in rank order
NthClose(j) == CHOOSE i \in CloseIdx : Cardinality({ x \in CloseIdx : x < i }) = j - 1

\* the ranked results are the store's top min(n, count()) by ascending distance
TopRanked ==
    LET res == last.results
        k   == Min(last.n_results, count(last.before))
    IN  /\ Len(res.ids) = k /\ Len(res.metadatas) = k /\ Len(res.distances) = k
        /\ \A i, j \in 1..k : i # j => res.ids[i] # res.ids[j]
        /\ \A i \in 1..k :
              /\ res.ids[i] \in DOMAIN last.before
              /\ res.metadatas[i] = last.before[res.ids[i]].metadata
              /\ res.distances[i] = Distance(last.query, last.before[res.ids[i]].document)
              /\ \A j \in 1..k : i < j => res.distances[i] <= res.distances[j]
              /\ \A x \in DOMAIN last.before \ { res.ids[j] : j \in 1..k } :
                    res.distances[i] <= Distance(last.query, last.before[x].document)

\* retrieve returns the results closer than 0.8, in rank order, with the
\* three metadata fields; SimilarityOk(s, d) says how s relates to distance d
FilteredInOrder(SimilarityOk(_, _)) ==
    LET res == last.results
    IN  /\ Len(last.ret) = Cardinality(CloseIdx)
        /\ Len(last.ret) <= Min(last.n_results, count(last.before))
        /\ \A j \in 1..Len(last.ret) :
              LET i == NthClose(j)
              IN  /\ last.ret[j].received = res.metadatas[i].received
                  /\ last.ret[j].reply = res.metadatas[i].reply
                  /\ last.ret[j].subject = res.metadatas[i].subject
                  /\ SimilarityOk(last.ret[j].similarity, res.distances[i])
        /\ (\A x \in DOMAIN last.before :
                Distance(last.query, last.before[x].document) >= 8000) => last.ret = <<>>

Exact(s, d) == 10 * s = 10000 - d
Rounded(s, d) == 10 * s - (10000 - d) \in (0 - 5)..5

\* C3 (as claimed): without a backend fault retrieve returns the store's top
\* min(n, count()) results that are closer than 0.8, in rank order, each with
\* similarity = 1 - distance.
C3_ThresholdFilterExact ==
    (IsRetrieve /\ last.fault = "none") => (TopRanked /\ FilteredInOrder(Exact))

\* C3 (amended): the same, the similarity being 1 - distance rounded to three
\* decimals.
C3_ThresholdFilterRounded ==
    (IsRetrieve /\ last.fault = "none") => (TopRanked /\ FilteredInOrder(Rounded))

C3_Witness ==
    /\ IsRetrieve
    /\ last.fault = "none"
    /\ Len(last.results.ids) >= 2
    /\ Len(last.ret) > 0
    /\ Len(last.ret) < Len(last.results.ids)
    /\ \E j \in 1..Len(last.ret) : ~Exact(last.ret[j].similarity, last.results.distances[NthClose(j)])

\* C4 (as claimed): a fault of any backend call made during a retrieval is
\* caught and turned into an empty result; retrieve never raises.
C4_FailOpen ==
    IsRetrieve =>
      /\ ~last.raised
      /\ last.fault # "none" => last.ret = <<>>

----------------------------------------------------------------------------
(* Properties of the style profiler *)

BuildPc == IF build = Idle THEN "idle" ELSE build.pc

IsGet == got.op = "get"

\* the emails of the batch being built that have a non-empty body
WithBody == { i \in 1..Len(build.emails) :
                build.emails[i].body # Missing /\ build.emails[i].body.n > 0 }

RECURSIVE TotalWords(_)
TotalWords(I) ==
    IF I = {} THEN 0
    ELSE LET i == CHOOSE i \in I : TRUE
         IN  Text(build.emails[i].body.t).words + TotalWords(I \ {i})

\* C6: while no build is writing, get_style_profile returns what the most
\* recent build call that had a non-empty body returned (the empty mapping
\* if there was none); a build call without a non-empty body returns the
\* empty profile and leaves the persisted profile as it was, any other
\* returns the profile it persisted.
C6_ProfileRoundTrip ==
    /\ (IsGet /\ got.writer \in {"idle", "computed", "returned"}) =>
          (~got.raised /\ got.ret = got.old)
    /\ BuildPc = "returned" =>
          /\ WithBody = {} => build.ret = EmptyProfile
          /\ WithBody # {} => (build.ret = latest /\ build.ret.email_count = Len(build.emails))
          /\ ~Load(file).raised
          /\ Load(file).ret = latest

C6_Witness ==
    /\ IsGet
    /\ got.writer = "returned"
    /\ WithBody = {}
    /\ ~got.raised
    /\ got.ret # EmptyProfile
    /\ got.ret.common_phrases # <<>>

\* C7 (as claimed): a get_style_profile reader, also one that reads while
\* build_style_profile writes, gets the complete old or the complete new
\* profile, never an error from an empty or partly written file.
C7_AtomicReplace ==
    IsGet => (~got.raised /\ (got.ret = got.old \/ got.ret = got.new))

\* C9: for a batch with a non-empty body, avg_length is the bucket of the
\* mean word count of the non-empty bodies: below 50 very short, from 50 to
\* below 120 concise, from 120 to below 300 moderate, from 300 detailed.
C9_LengthBucket ==
    (BuildPc \in {"computed", "opened", "returned"} /\ WithBody # {}) =>
      LET n     == Cardinality(WithBody)
          total == TotalWords(WithBody)
          label == build.profile.avg_length
      IN  /\ total < 50 * n => label = "very short (1-2 sentences)"
          /\ (50 * n <= total /\ total < 120 * n) => label = "concise (3-5 sentences)"
          /\ (120 * n <= total /\ total < 300 * n) => label = "moderate (1-2 paragraphs)"
          /\ 300 * n <= total => label = "detailed (multiple paragraphs)"

C9_Witness ==
    /\ BuildPc = "returned"
    /\ Cardinality(WithBody) = 2
    /\ TotalWords(WithBody) = 50 * 2
    /\ build.ret.avg_length = "concise (3-5 sentences)"

====
